---------------------------- MODULE Spec2Model ----------------------------
(***************************************************************************)
(* A model of src/src/HTML.mjs: the inline-style codec (StyleRuleToObject, *)
(* ObjectToStyleRule), SetStyle, the element builders (Create, FromObject, *)
(* #ObjectToElement) and GetZIndexRange.                                   *)
(*                                                                         *)
(* A JavaScript string is a sequence of one-character strings.  A          *)
(* JavaScript object with string keys is a sequence of [k, v] entries in   *)
(* insertion order, with no key twice.                                     *)
(***************************************************************************)
EXTENDS Integers, Sequences, FiniteSets

VARIABLES cur, hist,                     \* codec: current value, earlier values
          elemStyle, prevStyle, lastArg, \* SetStyle: the element's style attribute
          zIndexes, range,               \* GetZIndexRange: descendants, result
          buildOp, buildIn, built        \* builders: operation, its spec, result

codecVars == <<cur, hist>>
styleVars == <<elemStyle, prevStyle, lastArg>>
zVars == <<zIndexes, range>>
buildVars == <<buildOp, buildIn, built>>
vars == <<cur, hist, elemStyle, prevStyle, lastArg, zIndexes, range,
          buildOp, buildIn, built>>

\* ------------------------------------------------------------------ bounds
MaxLen == 5        \* longest raw style string given to the codec
MaxDecls == 2      \* most declarations of a generated style string
MaxProps == 2      \* most properties of a generated style object
MaxSteps == 3      \* most codec calls in a row
MaxInitLen == 2    \* longest raw style attribute an element starts with
MaxStyleLen == 13  \* longest style attribute SetStyle is followed to
MaxDescendants == 3 \* most descendants of the element GetZIndexRange scans
MaxChildren == 2   \* most entries of a spec's children list

\* -------------------------------------------------------------- characters
DQ == "\""
SP == " "
Alphabet == {"a", "A", ":", ";", DQ, SP}

SeqsUpTo(S, n) == UNION {[1..m -> S] : m \in 0..n}

\* -------------------------------------------------------------- JS values
\* a DOM element: attributes, assigned properties, child nodes, listeners
EmptyElement(tag) ==
    [tag |-> tag, attrs |-> <<>>, props |-> <<>>, children |-> <<>>,
     listeners |-> <<>>]
NotBuilt == [done |-> FALSE, error |-> FALSE, element |-> EmptyElement("none"),
             seen |-> <<>>]
NoSpec == [attributes |-> <<>>, style |-> [kind |-> "null", s |-> <<>>, o |-> <<>>],
           keys |-> <<>>, children |-> <<>>]
BuildIdle == buildOp = "none" /\ buildIn = NoSpec /\ built = NotBuilt
NoRange == [done |-> FALSE, min |-> 0, max |-> 0]
JNull == [kind |-> "null", s |-> <<>>, o |-> <<>>]
JStr(s) == [kind |-> "string", s |-> s, o |-> <<>>]
JObj(o) == [kind |-> "object", s |-> <<>>, o |-> o]

Entry(k, v) == [k |-> k, v |-> v]
Keys(obj) == {obj[i].k : i \in 1..Len(obj)}
HasKey(obj, k) == \E i \in 1..Len(obj) : obj[i].k = k
Get(obj, k) == obj[CHOOSE i \in 1..Len(obj) : obj[i].k = k].v

\* obj[k] = v: an existing key keeps its place, a new key goes last.
PutFirstWins(obj, k, v) ==
    IF HasKey(obj, k) THEN obj ELSE Append(obj, Entry(k, v))
Put(obj, k, v) ==
    IF HasKey(obj, k)
    THEN [i \in 1..Len(obj) |-> IF obj[i].k = k THEN Entry(k, v) ELSE obj[i]]
    ELSE Append(obj, Entry(k, v))

\* String.prototype.trim, for the whitespace of the alphabet.
RECURSIVE TrimLeft(_)
TrimLeft(s) == IF s # <<>> /\ Head(s) = SP THEN TrimLeft(Tail(s)) ELSE s
RECURSIVE TrimRight(_)
TrimRight(s) ==
    IF s # <<>> /\ s[Len(s)] = SP THEN TrimRight(SubSeq(s, 1, Len(s) - 1)) ELSE s
TrimNone(s) == s
Trim(s) == TrimLeft(TrimRight(s))

\* ------------------------------------------------------- StyleRuleToObject
\* line 342: the first colon of a declaration ends its name
IsKeySplit(c, key) == c = ":" /\ Len(key) < 1

\* line 348: a semicolon outside double quotes ends a declaration
IsSeparatorIgnoringQuotes(c, inQuote) == c = ";"
IsSeparator(c, inQuote) == c = ";" /\ ~inQuote

\* lines 350-352 and 362-364
StoreDeclaration(styleObj, key, declaration) ==
    IF Len(key) > 0 THEN Put(styleObj, key, Trim(declaration)) ELSE styleObj

\* lines 334-360: the scan, from character i on
RECURSIVE ScanStyle(_, _, _)
ScanStyle(styleString, i, st) ==
    IF i > Len(styleString) THEN st
    ELSE LET c == styleString[i]
             q == IF c = DQ THEN ~st.inQuote ELSE st.inQuote
         IN  IF IsKeySplit(c, st.key)
             THEN ScanStyle(styleString, i + 1,
                     [st EXCEPT !.inQuote = q,
                                !.key = Trim(st.declaration),
                                !.declaration = <<>>])
             ELSE IF IsSeparator(c, q)
             THEN ScanStyle(styleString, i + 1,
                     [inQuote |-> q, key |-> <<>>, declaration |-> <<>>,
                      styleObj |-> StoreDeclaration(st.styleObj, st.key,
                                                    st.declaration)])
             ELSE ScanStyle(styleString, i + 1,
                     [st EXCEPT !.inQuote = q,
                                !.declaration = Append(st.declaration, c)])

StyleRuleToObject(styleString) ==
    IF Len(styleString) < 1 THEN <<>>
    ELSE LET st == ScanStyle(styleString, 1,
                     [inQuote |-> FALSE, key |-> <<>>, declaration |-> <<>>,
                      styleObj |-> <<>>])
         IN  StoreDeclaration(st.styleObj, st.key, st.declaration)

\* ------------------------------------------------------- ObjectToStyleRule
\* Objects.isObject of ./Objects.mjs
IsObject(value) == value.kind = "object"

\* line 381: `${styleAttrib}: ${styleObj[styleAttrib]};`
StyleEntryNoSemicolon(e) == e.k \o <<":", SP>> \o e.v
StyleEntry(e) == e.k \o <<":", SP>> \o e.v \o <<";">>

\* Array.prototype.join
RECURSIVE Join(_, _)
Join(parts, sep) ==
    IF parts = <<>> THEN <<>>
    ELSE IF Len(parts) = 1 THEN parts[1]
    ELSE parts[1] \o sep \o Join(Tail(parts), sep)

ObjectToStyleRule(styleObj) ==
    IF ~IsObject(styleObj) THEN styleObj
    ELSE JStr(Join([i \in 1..Len(styleObj.o) |-> StyleEntry(styleObj.o[i])],
                   <<SP>>))

\* ------------------------------------------------------------- codec runs
RawStrings == SeqsUpTo(Alphabet, MaxLen)

DeclNames == {<<"a">>, <<"A">>, <<SP, "a", SP>>}
DeclValues == {<<>>, <<"a">>, <<SP, "a">>, <<"a", ":", "a">>,
               <<DQ, "a", ";", "a", ":", "a", DQ>>}
Decl(n, v) == n \o <<":">> \o v
DeclLists == SeqsUpTo({Decl(n, v) : n \in DeclNames, v \in DeclValues}, MaxDecls)
DeclStrings == {Join(ds, <<";">>) \o t : ds \in DeclLists, t \in {<<>>, <<";">>}}

MapNames == {<<"a">>, <<"A">>, <<"a", "a">>}
MapValues == {<<>>, <<"a">>, <<SP, "a">>, <<"a", ":", "a">>, <<"a", ";">>,
              <<DQ>>, <<DQ, DQ>>, <<DQ, ";", DQ>>, <<DQ, ":", DQ, "a">>}
StyleMaps ==
    {m \in SeqsUpTo({Entry(k, v) : k \in MapNames, v \in MapValues}, MaxProps) :
        \A i, j \in 1..Len(m) : m[i].k = m[j].k => i = j}

CodecInit ==
    /\ cur \in {JStr(s) : s \in RawStrings \cup DeclStrings}
                  \cup {JObj(m) : m \in StyleMaps}
    /\ hist = <<>>
    /\ elemStyle = JNull /\ prevStyle = JNull /\ lastArg = JNull
    /\ zIndexes = <<>> /\ range = NoRange
    /\ BuildIdle

Parse ==
    /\ cur.kind = "string"
    /\ Len(hist) < MaxSteps
    /\ cur' = JObj(StyleRuleToObject(cur.s))
    /\ hist' = Append(hist, cur)
    /\ UNCHANGED <<styleVars, zVars, buildVars>>

Serialize ==
    /\ cur.kind = "object"
    /\ Len(hist) < MaxSteps
    /\ cur' = ObjectToStyleRule(cur)
    /\ hist' = Append(hist, cur)
    /\ UNCHANGED <<styleVars, zVars, buildVars>>

CodecNext == Parse \/ Serialize

SpecCodec == CodecInit /\ [][CodecNext]_vars

\* ------------------------------------------------------- codec properties
AsMap(obj) == {<<obj[i].k, obj[i].v>> : i \in 1..Len(obj)}
UniqueKeys(obj) == \A i, j \in 1..Len(obj) : obj[i].k = obj[j].k => i = j
SameMapping(o1, o2) == UniqueKeys(o1) /\ UniqueKeys(o2) /\ AsMap(o1) = AsMap(o2)

QuotesBefore(s, i) == Cardinality({j \in 1..(i - 1) : s[j] = DQ})
Outside(s, i) == QuotesBefore(s, i) % 2 = 0
EvenQuotes(s) == QuotesBefore(s, Len(s) + 1) % 2 = 0
NoneUnquoted(s, chars) == \A i \in 1..Len(s) : s[i] \in chars => ~Outside(s, i)
Trimmed(s) == s = <<>> \/ (s[1] # SP /\ s[Len(s)] # SP)

\* The declarations of a style string, read off declaratively: the pieces
\* between consecutive semicolons that lie outside double quotes.
SepPos(s) == {i \in 1..Len(s) : s[i] = ";" /\ Outside(s, i)}
Cuts(s) == {0} \cup SepPos(s) \cup {Len(s) + 1}
Pieces(s) ==
    {p \in Cuts(s) \X Cuts(s) :
        p[1] < p[2] /\ ~\E c \in Cuts(s) : p[1] < c /\ c < p[2]}
PieceText(s, p) == SubSeq(s, p[1] + 1, p[2] - 1)
HasColon(t) == \E i \in 1..Len(t) : t[i] = ":"
FirstColon(t) ==
    CHOOSE i \in 1..Len(t) : t[i] = ":" /\ \A j \in 1..(i - 1) : t[j] # ":"
NameOf(t) == Trim(SubSeq(t, 1, FirstColon(t) - 1))
ValueOf(t) == Trim(SubSeq(t, FirstColon(t) + 1, Len(t)))
IsDeclaration(t) == HasColon(t) /\ NameOf(t) # <<>>
\* 'name: value' declarations separated by ';', the last ';' optional
Declarations(s) ==
    {p \in Pieces(s) : ~(p[2] = Len(s) + 1 /\ PieceText(s, p) = <<>>)}
MadeOfDeclarations(s) ==
    /\ s # <<>>
    /\ EvenQuotes(s)
    /\ \A p \in Declarations(s) : IsDeclaration(PieceText(s, p))
DeclaredNames(s) == {NameOf(PieceText(s, p)) : p \in Declarations(s)}
LastDeclared(s, n) ==
    CHOOSE p \in Declarations(s) :
        /\ NameOf(PieceText(s, p)) = n
        /\ \A r \in Declarations(s) :
              NameOf(PieceText(s, r)) = n => r[1] <= p[1]

Lower(c) == IF c = "A" THEN "a" ELSE c
LowerStr(s) == [i \in 1..Len(s) |-> Lower(s[i])]

Parsed == Len(hist) = 1 /\ hist[1].kind = "string"

\* C2: for a style string made of 'name: value' declarations separated by
\* ';' (values may hold ';' and ':' inside balanced double quotes, and ':'
\* anywhere), StyleRuleToObject returns exactly one entry per distinct name,
\* whose value is the trimmed text from the declaration's first ':' to the
\* next ';' outside double quotes.
C2_QuoteSafeFirstColon ==
    (Parsed /\ MadeOfDeclarations(hist[1].s)) =>
        /\ UniqueKeys(cur.o)
        /\ Keys(cur.o) = DeclaredNames(hist[1].s)
        /\ \A n \in Keys(cur.o) :
              Get(cur.o, n)
                  = ValueOf(PieceText(hist[1].s, LastDeclared(hist[1].s, n)))

C2_Witness ==
    /\ Parsed
    /\ hist[1].s = <<"a", ":", DQ, "a", ";", "a", ":", "a", DQ, ";",
                     "A", ":", "a", ";">>
    /\ cur.o = <<Entry(<<"a">>, <<DQ, "a", ";", "a", ":", "a", DQ>>),
                 Entry(<<"A">>, <<"a">>)>>

Reparsed == Len(hist) = 3 /\ hist[1].kind = "string"

\* C3 as stated: for every style string s, with balanced or unbalanced
\* quotes, StyleRuleToObject(ObjectToStyleRule(StyleRuleToObject(s))) equals
\* StyleRuleToObject(s) as a mapping.
C3_IdempotentAnyString == Reparsed => SameMapping(cur.o, hist[2].o)

\* C3 as amended: the same, for every style string s that holds an even
\* number of double-quote characters.
C3_IdempotentEvenQuotes ==
    (Reparsed /\ EvenQuotes(hist[1].s)) => SameMapping(cur.o, hist[2].o)

C3_Witness ==
    /\ Reparsed
    /\ EvenQuotes(hist[1].s)
    /\ \E i \in 1..Len(hist[1].s) : hist[1].s[i] = ";" /\ ~Outside(hist[1].s, i)
    /\ Len(cur.o) = 2

RoundTripped == Len(hist) = 2 /\ hist[1].kind = "object"

IsStyleName(k) == k # <<>> /\ Trimmed(k) /\ \A i \in 1..Len(k) : k[i] \notin {":", ";", DQ}
\* a StyleMap with distinct names whose values hold no ';' or ':' in an
\* unquoted position
RoundTripInput(m) ==
    /\ UniqueKeys(m)
    /\ \A i \in 1..Len(m) :
          /\ IsStyleName(m[i].k)
          /\ Trimmed(m[i].v)
          /\ NoneUnquoted(m[i].v, {";", ":"})

\* C4 as stated: for any StyleMap M with distinct names and values with no
\* ';' or ':' in an unquoted position,
\* StyleRuleToObject(ObjectToStyleRule(M)) equals M.
C4_RoundTrip ==
    (RoundTripped /\ RoundTripInput(hist[1].o)) => SameMapping(cur.o, hist[1].o)

\* C4 as amended: the same, when every value of M also holds an even number
\* of double-quote characters.
C4_RoundTripEvenQuotes ==
    (/\ RoundTripped
     /\ RoundTripInput(hist[1].o)
     /\ \A i \in 1..Len(hist[1].o) : EvenQuotes(hist[1].o[i].v))
        => SameMapping(cur.o, hist[1].o)

C4_Witness ==
    /\ RoundTripped
    /\ RoundTripInput(hist[1].o)
    /\ Len(hist[1].o) = 2
    /\ hist[1].o[1].v = <<DQ, ";", DQ>>
    /\ hist[1].o[2].v = <<DQ, ":", DQ, "a">>
    /\ cur.o = hist[1].o

\* C5 as stated: every name StyleRuleToObject returns is lowercase, and
\* declarations whose names differ only in letter case give a single entry
\* holding the later declaration's value.
C5_LowercaseNames ==
    (Parsed /\ MadeOfDeclarations(hist[1].s)) =>
        /\ \A n \in Keys(cur.o) : n = LowerStr(n)
        /\ Keys(cur.o) = {LowerStr(n) : n \in DeclaredNames(hist[1].s)}
        /\ \A p \in Declarations(hist[1].s) :
              (\A r \in Declarations(hist[1].s) :
                   LowerStr(NameOf(PieceText(hist[1].s, r)))
                       = LowerStr(NameOf(PieceText(hist[1].s, p)))
                   => r[1] <= p[1])
              => /\ HasKey(cur.o, LowerStr(NameOf(PieceText(hist[1].s, p))))
                 /\ Get(cur.o, LowerStr(NameOf(PieceText(hist[1].s, p))))
                       = ValueOf(PieceText(hist[1].s, p))

\* C5 as amended: StyleRuleToObject stores every name as written (trimmed,
\* letter case kept): declarations with the same name, letter for letter,
\* give a single entry holding the later declaration's value, and names that
\* differ in letter case give separate entries.
C5_NamesAsWritten ==
    (Parsed /\ MadeOfDeclarations(hist[1].s)) =>
        /\ Len(cur.o) = Cardinality(DeclaredNames(hist[1].s))
        /\ \A p \in Declarations(hist[1].s) :
              LET n == NameOf(PieceText(hist[1].s, p))
              IN  /\ HasKey(cur.o, n)
                  /\ (p = LastDeclared(hist[1].s, n)
                        => Get(cur.o, n) = ValueOf(PieceText(hist[1].s, p)))

C5_Witness ==
    /\ Parsed
    /\ hist[1].s = <<"A", ":", "a", ";", "a", ":", SP, "a">>
    /\ cur.o = <<Entry(<<"A">>, <<"a">>), Entry(<<"a">>, <<"a">>)>>

\* ----------------------------------------------------------------- SetStyle
\* Objects.ValueWithDefault of ./Objects.mjs
ValueWithDefault(value, default) == IF value.kind = "null" THEN default ELSE value

\* lines 38-40: for (propertyName in style) styleObject[propertyName] = ...
MergeReplacing(styleObject, style) == style
RECURSIVE MergeInto(_, _)
MergeInto(styleObject, style) ==
    IF style = <<>> THEN styleObject
    ELSE MergeInto(Put(styleObject, style[1].k, style[1].v), Tail(style))

\* line 46: `${propertyName}: ${styleObject[propertyName]}`
NewStyleEntry(e) == e.k \o <<":", SP>> \o e.v

\* lines 32-50, as the new value of the element's style attribute
SetStyle(attr, style) ==
    LET styleObject == MergeInto(
                           StyleRuleToObject(ValueWithDefault(attr, JStr(<<>>)).s),
                           style)
    IN  JStr(Join([i \in 1..Len(styleObject) |-> NewStyleEntry(styleObject[i])],
                  <<";">>))

ArgNames == {<<"a">>, <<"A">>}
ArgValues == {<<"a">>, <<";">>, <<DQ>>, <<DQ, ";", DQ>>}
StyleArgs ==
    {m \in SeqsUpTo({Entry(k, v) : k \in ArgNames, v \in ArgValues}, MaxProps) :
        \A i, j \in 1..Len(m) : m[i].k = m[j].k => i = j}

StyleInit ==
    /\ elemStyle \in {JNull} \cup {JStr(s) : s \in SeqsUpTo(Alphabet, MaxInitLen)}
    /\ prevStyle = JNull
    /\ lastArg = JNull
    /\ cur = JNull /\ hist = <<>>
    /\ zIndexes = <<>> /\ range = NoRange
    /\ BuildIdle

SetStyleCall ==
    \E style \in StyleArgs :
        LET new == SetStyle(elemStyle, style)
        IN  /\ Len(new.s) <= MaxStyleLen
            /\ elemStyle' = new
            /\ prevStyle' = elemStyle
            /\ lastArg' = JObj(style)
            /\ UNCHANGED <<codecVars, zVars, buildVars>>

StyleNext == SetStyleCall

SpecStyle == StyleInit /\ [][StyleNext]_vars

\* what StyleRuleToObject reads from a style attribute (null reads as "")
InlineStyle(attr) == StyleRuleToObject(ValueWithDefault(attr, JStr(<<>>)).s)

InsideBalancedQuotes(v, i) ==
    ~Outside(v, i) /\ \E j \in (i + 1)..Len(v) : v[j] = DQ
\* a StyleMap: names trimmed, non-empty, free of ':' ';' '"'; values trimmed,
\* any ';' inside a balanced double-quoted substring
IsStyleMap(m) ==
    \A i \in 1..Len(m) :
        /\ IsStyleName(m[i].k)
        /\ Trimmed(m[i].v)
        /\ \A j \in 1..Len(m[i].v) :
              m[i].v[j] = ";" => InsideBalancedQuotes(m[i].v, j)

Merged ==
    LET now == InlineStyle(elemStyle)
        before == InlineStyle(prevStyle)
    IN  /\ UniqueKeys(now)
        /\ \A i \in 1..Len(lastArg.o) :
              HasKey(now, lastArg.o[i].k)
                  /\ Get(now, lastArg.o[i].k) = lastArg.o[i].v
        /\ \A k \in Keys(before) \ Keys(lastArg.o) :
              HasKey(now, k) /\ Get(now, k) = Get(before, k)

\* C1 as stated: after every SetStyle(element, style) call whose style is a
\* StyleMap, the element's inline style maps each property named in the call
\* to the call's value and every other property present before the call to
\* the value it had.
C1_MergeNeverReplaces ==
    (lastArg.kind = "object" /\ IsStyleMap(lastArg.o)) => Merged

\* C1 as amended: the same, when every value of the call and the element's
\* inline style before the call each hold an even number of double-quote
\* characters.
C1_MergeEvenQuotes ==
    (/\ lastArg.kind = "object"
     /\ IsStyleMap(lastArg.o)
     /\ \A i \in 1..Len(lastArg.o) : EvenQuotes(lastArg.o[i].v)
     /\ EvenQuotes(ValueWithDefault(prevStyle, JStr(<<>>)).s))
        => Merged

C1_Witness ==
    /\ lastArg.kind = "object"
    /\ IsStyleMap(lastArg.o)
    /\ \A i \in 1..Len(lastArg.o) : EvenQuotes(lastArg.o[i].v)
    /\ EvenQuotes(ValueWithDefault(prevStyle, JStr(<<>>)).s)
    /\ \E k \in Keys(InlineStyle(prevStyle)) \ Keys(lastArg.o) :
          Get(InlineStyle(prevStyle), k) = <<DQ, ";", DQ>>
    /\ \E k \in Keys(InlineStyle(prevStyle)) \cap Keys(lastArg.o) :
          Get(InlineStyle(prevStyle), k) # Get(lastArg.o, k)

\* ----------------------------------------------------------- GetZIndexRange
InitialMinZIndex == 32000
InitialMaxZIndex == -32000

\* A computed z-index is the keyword auto or the text of an integer.
Auto == [auto |-> TRUE, n |-> 0]
ZText(n) == [auto |-> FALSE, n |-> n]
\* parseFloat: NaN for auto, the number for a number's text
NaN == [nan |-> TRUE, n |-> 0]
Num(n) == [nan |-> FALSE, n |-> n]
ParseFloat(z) == IF z.auto THEN NaN ELSE Num(z.n)
IsNaN(x) == x.nan

\* lines 414-420: a bound still at its initial value is reported as 0
ResetMinNever(minZIndex) == minZIndex
ResetMin(minZIndex) == IF minZIndex = InitialMinZIndex THEN 0 ELSE minZIndex
ResetMax(maxZIndex) == IF maxZIndex = InitialMaxZIndex THEN 0 ELSE maxZIndex

\* lines 401-412: the scan, from descendant i on
RECURSIVE ScanZ(_, _, _, _)
ScanZ(allElements, i, minZIndex, maxZIndex) ==
    IF i > Len(allElements) THEN [min |-> minZIndex, max |-> maxZIndex]
    ELSE LET zIndex == ParseFloat(allElements[i])
             newMin == IF ~IsNaN(zIndex) /\ zIndex.n < minZIndex
                       THEN zIndex.n ELSE minZIndex
             newMax == IF ~IsNaN(zIndex) /\ zIndex.n > maxZIndex
                       THEN zIndex.n ELSE maxZIndex
         IN  ScanZ(allElements, i + 1, newMin, newMax)

GetZIndexRange(allElements) ==
    LET scanned == ScanZ(allElements, 1, InitialMinZIndex, InitialMaxZIndex)
    IN  [done |-> TRUE, min |-> ResetMin(scanned.min), max |-> ResetMax(scanned.max)]

ZNumbers == {InitialMaxZIndex - 1, InitialMaxZIndex, -1, 0, 7,
             InitialMinZIndex, InitialMinZIndex + 1}
ZComputed == {Auto} \cup {ZText(n) : n \in ZNumbers}

ZInit ==
    /\ zIndexes \in SeqsUpTo(ZComputed, MaxDescendants)
    /\ range = NoRange
    /\ cur = JNull /\ hist = <<>>
    /\ elemStyle = JNull /\ prevStyle = JNull /\ lastArg = JNull
    /\ BuildIdle

GetZIndexRangeCall ==
    /\ ~range.done
    /\ range' = GetZIndexRange(zIndexes)
    /\ UNCHANGED <<zIndexes, codecVars, styleVars, buildVars>>

ZNext == GetZIndexRangeCall

SpecZ == ZInit /\ [][ZNext]_vars

Parseable == {zIndexes[i].n : i \in {j \in 1..Len(zIndexes) : ~zIndexes[j].auto}}

\* C9: when no descendant has a computed z-index that parses as a number
\* (no descendants at all included), GetZIndexRange returns {min: 0, max: 0},
\* never the scan's initial 32000 and -32000.
C9_EmptyRangeIsZero ==
    (range.done /\ Parseable = {}) => (range.min = 0 /\ range.max = 0)

C9_Witness ==
    /\ range.done
    /\ Len(zIndexes) = 2
    /\ Parseable = {}
    /\ range.min = 0 /\ range.max = 0

\* C10: when some descendant has a computed z-index that parses as a number,
\* GetZIndexRange returns the smallest and the largest of the parseable
\* values, whatever their magnitude and sign.
C10_TrueExtremes ==
    (range.done /\ Parseable # {}) =>
        /\ range.min \in Parseable /\ \A n \in Parseable : range.min <= n
        /\ range.max \in Parseable /\ \A n \in Parseable : n <= range.max

\* ------------------------------------------------------------ the builders
\* `${value}`
ObjectObject == <<"[", "o", "b", "j", "e", "c", "t", SP,
                  "O", "b", "j", "e", "c", "t", "]">>
TemplateString(value) ==
    IF value.kind = "string" THEN value.s
    ELSE IF value.kind = "object" THEN ObjectObject
    ELSE <<"n", "u", "l", "l">>

\* child nodes of an element
ElementNode(name) == [node |-> "element", name |-> name, data |-> <<>>]
CreatedNode(tag) == [node |-> "created", name |-> tag, data |-> <<>>]
TextNode(data) == [node |-> "text", name |-> "#text", data |-> data]

\* entries of a spec's children list: null, an HTMLElement, a leaf spec, and
\* (once FromObject has run over the list) an element Create returned
NullChild == [kind |-> "null", name |-> "null"]
ElementChild(name) == [kind |-> "element", name |-> name]
SpecChild(tag) == [kind |-> "spec", name |-> tag]
CreatedChild(tag) == [kind |-> "created", name |-> tag]

\* the values the specs of the model give to properties, events and text
Properties == <<Entry("title", "t")>>
Events == <<Entry("click", "handler")>>
Text == <<"a">>

SetAttribute(element, name, value) ==
    [element EXCEPT !.attrs = Put(@, name, value)]
GetAttribute(element, name) ==
    IF HasKey(element.attrs, name) THEN JStr(Get(element.attrs, name)) ELSE JNull
AppendNode(element, n) == [element EXCEPT !.children = Append(@, n)]
\* element.append(x): a node is appended, any other value as its text
AppendValue(element, c) ==
    IF c.kind = "element" THEN AppendNode(element, ElementNode(c.name))
    ELSE IF c.kind = "created" THEN AppendNode(element, CreatedNode(c.name))
    ELSE AppendNode(element, TextNode(ObjectObject))
SetProperties(element, properties) ==
    [element EXCEPT !.props = MergeInto(@, properties)]
AddEventListeners(element, events) ==
    [element EXCEPT !.listeners = @ \o events]
Remove(obj, k) == SelectSeq(obj, LAMBDA e : e.k # k)

\* lines 84-102 with the empty substitution dictionary of line 111
Subst(value) == value

\* lines 154-156 and 287-294, from attribute i on; rule says how the style
\* attribute's value is written
RECURSIVE SetAttributes(_, _, _, _)
SetAttributes(element, attributes, i, styleAsRule) ==
    IF i > Len(attributes) THEN element
    ELSE SetAttributes(
             SetAttribute(element, attributes[i].k,
                 IF styleAsRule /\ attributes[i].k = "style"
                 THEN TemplateString(ObjectToStyleRule(attributes[i].v))
                 ELSE TemplateString(attributes[i].v)),
             attributes, i + 1, styleAsRule)

\* ---- Create, lines 249-315
\* lines 258-269
CreateAttributes(attributes, style) ==
    IF style.kind = "null" THEN attributes
    ELSE IF HasKey(attributes, "style")
    THEN Put(attributes, "style",
             JObj(MergeInto(
                 StyleRuleToObject(
                     ObjectToStyleRule(Get(attributes, "style")).s),
                 style.o)))
    ELSE Put(attributes, "style", style)

\* lines 300-304, from child i on
RECURSIVE CreateChildren(_, _, _)
CreateChildren(element, children, i) ==
    IF i > Len(children) THEN element
    ELSE CreateChildren(
             IF children[i].kind # "null" THEN AppendValue(element, children[i])
             ELSE element,
             children, i + 1)

Has(spec, key) == \E i \in 1..Len(spec.keys) : spec.keys[i] = key

Create(spec) ==
    LET attributes == CreateAttributes(spec.attributes, spec.style)
        properties == IF Has(spec, "properties") THEN Properties ELSE <<>>
        children == IF Has(spec, "children") THEN spec.children ELSE <<>>
        events == IF Has(spec, "events") THEN Events ELSE <<>>
        e1 == SetAttributes(EmptyElement("div"), attributes, 1, TRUE)
        e2 == SetProperties(e1, properties)
        e3 == CreateChildren(e2, children, 1)
        e4 == AddEventListeners(e3, events)
    IN  [done |-> TRUE, error |-> FALSE, element |-> e4,
         seen |-> IF Has(spec, "inlineModifier") THEN <<e4>> ELSE <<>>]

\* ---- FromObject, lines 208-236
TypeError == [done |-> TRUE, error |-> TRUE, element |-> EmptyElement("none"),
              seen |-> <<>>]

\* lines 217-233 over a children list of leaf entries, from entry i on:
\* "tag" in null throws, an HTMLElement has no "tag" and is left out, a leaf
\* spec goes through Create
RECURSIVE FromObjectList(_, _, _)
FromObjectList(obj, i, elementList) ==
    IF i > Len(obj) THEN [error |-> FALSE, list |-> elementList]
    ELSE IF obj[i].kind = "null" THEN [error |-> TRUE, list |-> <<>>]
    ELSE IF obj[i].kind = "spec"
    THEN FromObjectList(obj, i + 1, Append(elementList, CreatedChild(obj[i].name)))
    ELSE FromObjectList(obj, i + 1, elementList)

FromObject(spec) ==
    IF Has(spec, "children")
          /\ ~(spec.children # <<>> /\ spec.children[1].kind = "element")
    THEN LET sub == FromObjectList(spec.children, 1, <<>>)
         IN  IF sub.error THEN TypeError
             ELSE Create([spec EXCEPT !.children = sub.list])
    ELSE Create(spec)

\* ---- #ObjectToElement, lines 77-201
\* lines 144-151: the merged inlineStyle is dropped, and the key deleted
\* from attributes is "attributes"
PreProcessedAttributes(attributes, style) ==
    IF HasKey(attributes, "style") THEN Remove(attributes, "attributes")
    ELSE attributes

\* lines 120-130 and 115-118, 196 for a leaf entry of children
ObjectToElementChild(parentElement, child) ==
    IF child.kind = "null" THEN parentElement
    ELSE IF child.kind = "element"
    THEN AppendNode(parentElement, ElementNode(child.name))
    ELSE AppendNode(parentElement, CreatedNode(child.name))

RECURSIVE MaterializeChildren(_, _, _)
MaterializeChildren(parentElement, value, i) ==
    IF i > Len(value) THEN parentElement
    ELSE MaterializeChildren(ObjectToElementChild(parentElement, value[i]),
                             value, i + 1)

\* lines 163-198, from key i on; st holds the element and what each call of
\* inlineModifier was given
RECURSIVE ProcessOtherKeys(_, _, _)
ProcessOtherKeys(obj, i, st) ==
    IF i > Len(obj.keys) THEN st
    ELSE LET key == obj.keys[i]
             el == st.element
         IN  ProcessOtherKeys(obj, i + 1,
                 IF key = "children"
                 THEN [st EXCEPT !.element =
                          MaterializeChildren(el, Subst(obj.children), 1)]
                 ELSE IF key = "properties"
                 THEN [st EXCEPT !.element = SetProperties(el, Subst(Properties))]
                 ELSE IF key = "events"
                 THEN [st EXCEPT !.element = AddEventListeners(el, Subst(Events))]
                 ELSE IF key = "inlineModifier"
                 THEN [st EXCEPT !.seen = Append(@, el)]
                 ELSE [st EXCEPT !.element = AppendNode(el, TextNode(Subst(Text)))])

ObjectToElement(obj) ==
    LET style == IF obj.style.kind = "null" THEN <<>> ELSE Subst(obj.style).o
        attributes == PreProcessedAttributes(Subst(obj.attributes), style)
        e1 == SetAttributes(EmptyElement("div"), attributes, 1, FALSE)
        e2 == IF Len(style) > 0
              THEN SetAttribute(e1, "style",
                       SetStyle(GetAttribute(e1, "style"), style).s)
              ELSE e1
    IN  ProcessOtherKeys(obj, 1,
            [done |-> TRUE, error |-> FALSE, element |-> e2, seen |-> <<>>])

\* ---- the specs the builders are given
AttrStyles ==
    {JStr(<<"a", ":", SP, "a">>),
     JStr(<<"A", ":", SP, "a", ";", SP, "a", ":", SP, DQ, ";", DQ>>),
     JObj(<<Entry(<<"a">>, <<"a">>)>>),
     JObj(<<Entry(<<"A">>, <<"a">>), Entry(<<"a">>, <<DQ, ";", DQ>>)>>)}
AttributeSets == {<<>>} \cup {<<Entry("style", v)>> : v \in AttrStyles}
ExplicitStyles ==
    {JNull, JObj(<<>>), JObj(<<Entry(<<"a">>, <<"A">>)>>),
     JObj(<<Entry(<<"A">>, <<"A">>)>>)}
OtherKeys == {"children", "properties", "events", "inlineModifier", "text"}
KeyOrders ==
    {ks \in SeqsUpTo(OtherKeys, Cardinality(OtherKeys)) :
        \A i, j \in 1..Len(ks) : ks[i] = ks[j] => i = j}
ChildEntries == {NullChild, ElementChild("e1"), SpecChild("span")}
ElementSpecs ==
    {[attributes |-> a, style |-> s, keys |-> ks, children |-> cs] :
        a \in AttributeSets, s \in ExplicitStyles, ks \in KeyOrders,
        cs \in SeqsUpTo(ChildEntries, MaxChildren)}
Specs ==
    {spec \in ElementSpecs : ~Has(spec, "children") => spec.children = <<>>}

BuildInit ==
    /\ BuildIdle
    /\ cur = JNull /\ hist = <<>>
    /\ elemStyle = JNull /\ prevStyle = JNull /\ lastArg = JNull
    /\ zIndexes = <<>> /\ range = NoRange

CreateCall ==
    /\ ~built.done
    /\ \E spec \in Specs :
          buildOp' = "Create" /\ buildIn' = spec /\ built' = Create(spec)
    /\ UNCHANGED <<codecVars, styleVars, zVars>>

FromObjectCall ==
    /\ ~built.done
    /\ \E spec \in Specs :
          buildOp' = "FromObject" /\ buildIn' = spec /\ built' = FromObject(spec)
    /\ UNCHANGED <<codecVars, styleVars, zVars>>

ObjectToElementCall ==
    /\ ~built.done
    /\ \E spec \in Specs :
          /\ buildOp' = "ObjectToElement"
          /\ buildIn' = spec
          /\ built' = ObjectToElement(spec)
    /\ UNCHANGED <<codecVars, styleVars, zVars>>

BuildNext == CreateCall \/ FromObjectCall \/ ObjectToElementCall

SpecBuild == BuildInit /\ [][BuildNext]_vars

\* ------------------------------------------------------ builder properties
Built(ops) == built.done /\ buildOp \in ops

StyleSources ==
    /\ HasKey(buildIn.attributes, "style")
    /\ buildIn.style.kind = "object"
\* the properties attributes.style gives, as a style string or as a StyleMap
AttributeStyle ==
    LET given == Get(buildIn.attributes, "style")
    IN  IF given.kind = "object" THEN given.o ELSE StyleRuleToObject(given.s)
ExplicitWins ==
    LET now == InlineStyle(GetAttribute(built.element, "style"))
    IN  /\ ~built.error
        /\ UniqueKeys(now)
        /\ \A i \in 1..Len(buildIn.style.o) :
              /\ HasKey(now, buildIn.style.o[i].k)
              /\ Get(now, buildIn.style.o[i].k) = buildIn.style.o[i].v
        /\ \A k \in Keys(AttributeStyle) \ Keys(buildIn.style.o) :
              HasKey(now, k) /\ Get(now, k) = Get(AttributeStyle, k)

\* C6: when a spec gives both attributes.style (a style string or a
\* StyleMap) and an explicit style map, the element built by
\* #ObjectToElement or by Create has an inline style holding every property
\* of either source, with the explicit map's value where both name it.
C6_ExplicitStyleWins ==
    (Built({"Create", "ObjectToElement"}) /\ StyleSources) => ExplicitWins

\* C7: a spec's inlineModifier is called exactly once, with the node, and
\* only after the node's attributes, style, properties, children, events and
\* text have all been applied, whatever the order of the spec's keys: what
\* the callback is given is the node as the builder returns it.
C7_InlineModifierLast ==
    (Built({"Create", "ObjectToElement"}) /\ Has(buildIn, "inlineModifier")) =>
        /\ ~built.error
        /\ Len(built.seen) = 1
        /\ built.seen[1] = built.element

HasNullChild ==
    /\ Has(buildIn, "children")
    /\ \E i \in 1..Len(buildIn.children) : buildIn.children[i].kind = "null"
NonNull == SelectSeq(buildIn.children, LAMBDA c : c.kind # "null")
\* the entries each builder documents for children: Create takes elements,
\* FromObject a list of specs or a list of elements, #ObjectToElement both
ChildrenFit ==
    \/ buildOp = "ObjectToElement"
    \/ \A i \in 1..Len(NonNull) : NonNull[i].kind = "element"
    \/ buildOp = "FromObject" /\ \A i \in 1..Len(NonNull) : NonNull[i].kind = "spec"
Materialized ==
    [i \in 1..Len(NonNull) |->
        IF NonNull[i].kind = "element" THEN ElementNode(NonNull[i].name)
        ELSE CreatedNode(NonNull[i].name)]
ChildElements == SelectSeq(built.element.children, LAMBDA n : n.node # "text")

\* C8: a children list with null entries, given to FromObject, Create or
\* #ObjectToElement, raises no error, and the node's children are the
\* materialized non-null entries in their original order.
C8_NullChildTolerance ==
    (Built({"FromObject", "Create", "ObjectToElement"})
         /\ HasNullChild /\ ChildrenFit) =>
        /\ ~built.error
        /\ ChildElements = Materialized

=============================================================================
